---- MODULE Spec2Model ----
(***************************************************************************)
(* A model of MobaLiveCD Linux's device-discovery, boot-source validation  *)
(* and emulator launch code: core/nvme_handler.py (NVMeHandler) and        *)
(* core/qemu_runner.py (QEMURunner).                                       *)
(*                                                                         *)
(* Python strings are sequences of one-character strings, so that          *)
(* startswith, "in", lower, endswith, replace and float are modelled by    *)
(* what they do.  Python's None is the one-element sequence None, whose    *)
(* element is no character.  Exception names and the fixed messages the    *)
(* code returns are plain TLA+ strings.                                    *)
(***************************************************************************)
EXTENDS Integers, Sequences, FiniteSets, TLC

VARIABLES
  host,             \* what the host's lsblk, /dev and blockdev answer
  nvme_devices,     \* NVMeHandler.nvme_devices
  nvme_partitions,  \* NVMeHandler.nvme_partitions
  scanned,          \* a discovery pass has returned on this handler
  last,             \* the last NVMeHandler call: its argument and outcome
  qemu_binary,      \* QEMURunner.qemu_binary
  use_kvm,          \* QEMURunner.use_kvm
  pc,               \* where run_iso stands: "idle", "sleeping"; "failed" when
                    \* the constructor raised and there is no runner
  proc,             \* the emulator process run_iso spawned and still looks at
  out               \* the last QEMURunner or classifier call and its outcome

vars == <<host, nvme_devices, nvme_partitions, scanned, last,
          qemu_binary, use_kvm, pc, proc, out>>

handlerVars == <<host, nvme_devices, nvme_partitions, scanned, last>>
runnerVars == <<qemu_binary, use_kvm, pc, proc, out>>

(***************************************************************************)
(* Bounds                                                                  *)
(***************************************************************************)
\* partitions per NVMe disk on the modelled hosts
MaxParts == 1

(***************************************************************************)
(* Strings                                                                 *)
(***************************************************************************)
\* F(v), with v evaluated once
With(v, F(_)) == CHOOSE y \in { F(x) : x \in {v} } : TRUE

None == <<"<None>">>
Empty == <<>>

UpperChars == <<"A","B","C","D","E","F","G","H","I","J","K","L","M",
                "N","O","P","Q","R","S","T","U","V","W","X","Y","Z">>
LowerChars == <<"a","b","c","d","e","f","g","h","i","j","k","l","m",
                "n","o","p","q","r","s","t","u","v","w","x","y","z">>
DigitChars == <<"0","1","2","3","4","5","6","7","8","9">>

\* str.lower() on one character
LowerChar(c) ==
  IF \E i \in 1..26 : UpperChars[i] = c
  THEN LowerChars[CHOOSE i \in 1..26 : UpperChars[i] = c]
  ELSE c

\* str.lower()
Lower(s) == [i \in 1..Len(s) |-> LowerChar(s[i])]

\* str.startswith(pre)
StartsWith(s, pre) ==
  /\ Len(s) >= Len(pre)
  /\ SubSeq(s, 1, Len(pre)) = pre

\* str.endswith(suf)
EndsWith(s, suf) ==
  /\ Len(s) >= Len(suf)
  /\ SubSeq(s, Len(s) - Len(suf) + 1, Len(s)) = suf

\* sub in s
Contains(s, sub) ==
  \E i \in 1..(Len(s) - Len(sub) + 1) : SubSeq(s, i, i + Len(sub) - 1) = sub

\* s.replace(c, '') for a one-character c
RECURSIVE RemoveChar(_, _)
RemoveChar(s, c) ==
  IF s = <<>> THEN <<>>
  ELSE IF Head(s) = c THEN RemoveChar(Tail(s), c)
       ELSE <<Head(s)>> \o RemoveChar(Tail(s), c)

IsDigit(c) == \E i \in 1..10 : DigitChars[i] = c
DigitVal(c) == (CHOOSE i \in 1..10 : DigitChars[i] = c) - 1

\* the decimal digits of n >= 0
RECURSIVE Digits(_)
Digits(n) ==
  IF n < 10 THEN <<DigitChars[n + 1]>>
  ELSE Digits(n \div 10) \o <<DigitChars[(n % 10) + 1]>>

\* the value of a digit string
RECURSIVE DigitsVal(_)
DigitsVal(s) ==
  IF s = <<>> THEN 0
  ELSE DigitsVal(SubSeq(s, 1, Len(s) - 1)) * 10 + DigitVal(s[Len(s)])

AllDigits(s) == \A i \in 1..Len(s) : IsDigit(s[i])

(***************************************************************************)
(* float(s) for the plain decimal notations digits, digits.digits,         *)
(* digits. and .digits; every other string of the modelled inputs raises   *)
(* ValueError.  The value is kept exactly, as integer part and fraction    *)
(* digits.                                                                 *)
(***************************************************************************)
DotPos(s) == IF \E i \in 1..Len(s) : s[i] = "."
             THEN CHOOSE i \in 1..Len(s) : s[i] = "." /\ \A j \in 1..(i-1) : s[j] # "."
             ELSE 0

ParseFloat(s) ==
  LET d == DotPos(s)
      ip == IF d = 0 THEN s ELSE SubSeq(s, 1, d - 1)
      fp == IF d = 0 THEN <<>> ELSE SubSeq(s, d + 1, Len(s))
  IN IF /\ s # None
        /\ AllDigits(ip) /\ AllDigits(fp)
        /\ Len(ip) + Len(fp) >= 1
        /\ Len(ip) <= 8
     THEN [ok |-> TRUE, int |-> DigitsVal(ip),
           fracZero |-> \A i \in 1..Len(fp) : fp[i] = "0"]
     ELSE [ok |-> FALSE, int |-> 0, fracZero |-> TRUE]

\* lo <= float value <= hi, for integers lo and hi
FloatBetween(f, lo, hi) ==
  /\ f.int >= lo
  /\ \/ f.int < hi
     \/ f.int = hi /\ f.fracZero

(***************************************************************************)
(* NVMeHandler: pure helpers                                               *)
(***************************************************************************)
\* a key the JSON record does not carry: dict.get(key, default) gives default
Absent == <<"<absent>">>

\* dict.get(key, default) on a value that is Absent, None or a string
Get(v, default) == IF v = Absent THEN default ELSE v

Pow1024(k) == IF k = 0 THEN 1 ELSE IF k = 1 THEN 1024 ELSE IF k = 2 THEN 1048576
              ELSE 1073741824

SizeUnits == <<"B", "K", "M", "G">>

\* _format_size, for byte counts below 2^30 (the loop leaves at unit G at the
\* latest): the largest unit with a scaled value below 1024, one decimal,
\* rounded half to even as Python's format does on the exact quotient.
FormatSize(size_bytes) ==
  LET k == CHOOSE i \in 0..3 :
             /\ (size_bytes \div Pow1024(i)) < 1024
             /\ \A j \in 0..(i-1) : (size_bytes \div Pow1024(j)) >= 1024
      d == Pow1024(k)
      q == size_bytes \div d
      r10 == (size_bytes % d) * 10
      t0 == r10 \div d
      rem == r10 % d
      up == IF 2 * rem > d \/ (2 * rem = d /\ t0 % 2 = 1) THEN 1 ELSE 0
      tenths == q * 10 + t0 + up
  IN Digits(tenths \div 10) \o <<".">> \o Digits(tenths % 10) \o <<SizeUnits[k + 1]>>

S_fat32 == <<"f","a","t","3","2">>
S_vfat == <<"v","f","a","t">>
S_fat16 == <<"f","a","t","1","6">>
S_ntfs == <<"n","t","f","s">>
S_ext2 == <<"e","x","t","2">>
S_ext3 == <<"e","x","t","3">>
S_ext4 == <<"e","x","t","4">>
S_btrfs == <<"b","t","r","f","s">>
S_xfs == <<"x","f","s">>
S_zfs_member == <<"z","f","s","_","m","e","m","b","e","r">>
S_swap == <<"s","w","a","p">>

\* bootable_fs, nvme_handler.py line 161
bootable_fs == {S_fat32, S_vfat, S_fat16, S_ntfs, S_ext2, S_ext3, S_ext4, S_btrfs, S_xfs}

\* boot_labels, nvme_handler.py line 168
boot_labels == {<<"b","o","o","t">>, <<"e","f","i">>, <<"s","y","s","t","e","m">>,
                <<"r","e","c","o","v","e","r","y">>, <<"w","i","n","d","o","w","s">>,
                <<"l","i","n","u","x">>}

Returned(v) == [kind |-> "return", value |-> v, exc |-> ""]
Raised(e) == [kind |-> "raise", value |-> FALSE, exc |-> e]

\* _check_bootable(part_name, partition_info): the three fields are what
\* partition_info holds under 'fstype', 'label' and 'size' (Absent: no key).
\* None.lower() raises AttributeError; 'M' in None raises TypeError.
CheckBootable(fstype0, label0, size0) ==
  LET fs == Get(fstype0, Empty)
      lb == Get(label0, Empty)
      size_str == Get(size0, Empty)
  IN IF fs = None \/ lb = None THEN Raised("AttributeError")
     ELSE With(<<Lower(fs), Lower(lb)>>, LAMBDA low :
            LET fstype == low[1]
                label == low[2]
            IN IF fstype \in bootable_fs THEN Returned(TRUE)
               ELSE IF \E boot_label \in boot_labels : Contains(label, boot_label)
                    THEN Returned(TRUE)
               ELSE IF size_str = None THEN Raised("TypeError")
               ELSE IF Contains(size_str, <<"M">>)
                    THEN With(ParseFloat(RemoveChar(size_str, "M")), LAMBDA size_mb :
                           IF /\ size_mb.ok
                              /\ FloatBetween(size_mb, 50, 1024)
                              /\ fstype \in {S_fat32, S_vfat}
                           THEN Returned(TRUE)
                           ELSE Returned(FALSE))
               ELSE Returned(FALSE))

DevPrefix == <<"/","d","e","v","/">>
S_nvme == <<"n","v","m","e">>
S_p == <<"p">>
S_Unknown == <<"U","n","k","n","o","w","n">>
S_0B == <<"0","B">>

\* is_nvme_partition
IsNvmePartition(device_path) ==
  StartsWith(device_path, DevPrefix \o S_nvme) /\ Contains(device_path, S_p)


(***************************************************************************)
(* The host: what lsblk, /dev and blockdev answer.                         *)
(*   top       outcome of the top-level lsblk call (line 27)               *)
(*   disks     the NVMe disks, each with the outcome of its detail lsblk   *)
(*             call (line 64) and its partitions                           *)
(* Outcomes: "ok", "missing" (FileNotFoundError: no lsblk binary),         *)
(* "denied" (PermissionError: the lsblk on PATH cannot be executed),       *)
(* "nonzero" (CalledProcessError) and "malformed" (JSONDecodeError).       *)
(***************************************************************************)
Outcomes == {"ok", "missing", "denied", "nonzero", "malformed"}

S_EFI == <<"E","F","I">>
S_root == <<"r","o","o","t">>
S_swap0 == <<"s","w","a","p","0">>
S_100M == <<"1","0","0","M">>
S_256M == <<"2","5","6","M">>
S_512M == <<"5","1","2","M">>
S_20G == <<"2","0","G">>
S_mnt_efi == <<"/","b","o","o","t","/","e","f","i">>
S_mnt_root == <<"/">>
S_uuid == <<"A","B","C","D","-","1","2">>

\* What the host holds for one partition: the fields lsblk prints for it, the
\* byte count blockdev --getsize64 prints (-1: blockdev fails), and whether
\* its first sector ends in 0x55 0xAA and can be read.
PartProfiles ==
  { [size |-> S_100M, fstype |-> S_vfat, label |-> S_EFI, uuid |-> S_uuid,
     partuuid |-> S_uuid, mountpoint |-> S_mnt_efi, bytes |-> 104857600, sig |-> TRUE],
    [size |-> S_256M, fstype |-> S_zfs_member, label |-> None, uuid |-> S_uuid,
     partuuid |-> S_uuid, mountpoint |-> None, bytes |-> 268435456, sig |-> FALSE],
    [size |-> S_0B, fstype |-> S_swap, label |-> S_swap0, uuid |-> None,
     partuuid |-> S_uuid, mountpoint |-> None, bytes |-> 0, sig |-> FALSE],
    [size |-> S_20G, fstype |-> S_ext4, label |-> S_root, uuid |-> S_uuid,
     partuuid |-> S_uuid, mountpoint |-> S_mnt_root, bytes |-> -1, sig |-> TRUE] }

DiskNames == << <<"n","v","m","e","0","n","1">>, <<"n","v","m","e","1","n","1">> >>
S_sda == <<"s","d","a">>
S_sda1 == <<"s","d","a","1">>
S_nvme0 == <<"n","v","m","e","0">>
S_stale == <<"n","v","m","e","0","n","9","p","1">>
DiskBytes == 512 * 1048576

SeqsUpTo(S, n) == UNION { [1..k -> S] : k \in 0..n }

\* the partitions of the first k disks, counted
RECURSIVE PartCount(_, _)
PartCount(disks, k) ==
  IF k = 0 THEN 0 ELSE Len(disks[k].parts) + PartCount(disks, k - 1)

\* the hosts: up to two NVMe disks of up to MaxParts partitions each, and
\* no more than MaxParts + 1 partitions on the two together
Hosts ==
  { h \in [top : Outcomes,
           disks : UNION { [1..n -> [detail : Outcomes,
                                      parts : SeqsUpTo(PartProfiles, MaxParts)]]
                           : n \in 0..Len(DiskNames) }] :
      \* a facility that fails at the top-level call fails alike per device
      /\ h.top # "ok" => \A i \in 1..Len(h.disks) : h.disks[i].detail = h.top
      /\ PartCount(h.disks, Len(h.disks)) <= MaxParts + 1 }

DiskName(i) == DiskNames[i]
PartName(i, j) == DiskNames[i] \o S_p \o Digits(j)

\* the top-level listing: data['blockdevices'] of the call at line 27
TopListing(h) ==
  << [name |-> S_sda, size |-> S_512M, disk |-> 0] >> \o
  [i \in 1..Len(h.disks) |-> [name |-> DiskName(i), size |-> S_512M, disk |-> i]]

\* the children of the device record the detail call prints for disk i
Children(h, i) ==
  [j \in 1..Len(h.disks[i].parts) |->
     LET p == h.disks[i].parts[j]
     IN [name |-> PartName(i, j), size |-> p.size, fstype |-> p.fstype,
         label |-> p.label, uuid |-> p.uuid, partuuid |-> p.partuuid,
         mountpoint |-> p.mountpoint]]

\* the entries of /dev, in directory order, each with its node type, what
\* blockdev prints for it and its boot signature
DiskNodes(h, i) ==
  << [name |-> DiskName(i), type |-> "blk", bytes |-> DiskBytes, sig |-> TRUE] >> \o
  [j \in 1..Len(h.disks[i].parts) |->
     [name |-> PartName(i, j), type |-> "blk",
      bytes |-> h.disks[i].parts[j].bytes, sig |-> h.disks[i].parts[j].sig]]

RECURSIVE AllDiskNodes(_, _)
AllDiskNodes(h, i) ==
  IF i > Len(h.disks) THEN <<>> ELSE DiskNodes(h, i) \o AllDiskNodes(h, i + 1)

DevDir(h) ==
  << [name |-> S_sda, type |-> "blk", bytes |-> DiskBytes, sig |-> TRUE],
     [name |-> S_sda1, type |-> "blk", bytes |-> DiskBytes, sig |-> TRUE],
     [name |-> S_nvme0, type |-> "chr", bytes |-> -1, sig |-> FALSE],
     [name |-> S_stale, type |-> "reg", bytes |-> -1, sig |-> FALSE] >>
  \o AllDiskNodes(h, 1)


(***************************************************************************)
(* NVMeHandler: discovery                                                  *)
(***************************************************************************)
\* _get_device_size: blockdev's byte count formatted, "Unknown" when blockdev
\* fails (non-zero exit, or any exception: the bare except)
GetDeviceSize(node) ==
  IF node.bytes >= 0 THEN FormatSize(node.bytes) ELSE S_Unknown

\* _check_bootable_fallback: the boot signature of the first sector, False
\* when the node cannot be read
CheckBootableFallback(node) == node.sig

\* part_info of _get_nvme_partitions, lines 76-87
PartInfo(partition, device_name, bootable) ==
  [device |-> DevPrefix \o partition.name,
   name |-> partition.name,
   size |-> Get(partition.size, S_Unknown),
   fstype |-> Get(partition.fstype, Empty),
   label |-> Get(partition.label, Empty),
   uuid |-> Get(partition.uuid, Empty),
   partuuid |-> Get(partition.partuuid, Empty),
   mountpoint |-> Get(partition.mountpoint, Empty),
   parent_device |-> DevPrefix \o device_name,
   bootable |-> bootable]

\* the loop of _get_nvme_partitions over one device's children, lines 73-88;
\* an exception of _check_bootable leaves the loop
RECURSIVE PartitionLoop(_, _, _, _)
PartitionLoop(children, device_name, j, partitions) ==
  IF j > Len(children) THEN [kind |-> "return", exc |-> "", parts |-> partitions]
  ELSE With(children[j], LAMBDA partition :
         IF /\ StartsWith(Get(partition.name, Empty), S_nvme)
            /\ Contains(Get(partition.name, Empty), S_p)
         THEN With(CheckBootable(partition.fstype, partition.label, partition.size),
                LAMBDA b :
                  IF b.kind = "raise"
                  THEN [kind |-> "raise", exc |-> b.exc, parts |-> partitions]
                  ELSE With(Append(partitions, PartInfo(partition, device_name, b.value)),
                         LAMBDA partitions2 :
                           PartitionLoop(children, device_name, j + 1, partitions2)))
         ELSE PartitionLoop(children, device_name, j + 1, partitions))

\* _get_nvme_partitions whose loop starts at the second child
GetNvmePartitionsSkipFirst(h, i) ==
  IF h.disks[i].detail = "missing"
  THEN [kind |-> "raise", exc |-> "FileNotFoundError", parts |-> <<>>]
  ELSE IF h.disks[i].detail = "denied"
  THEN [kind |-> "raise", exc |-> "PermissionError", parts |-> <<>>]
  ELSE IF h.disks[i].detail \in {"nonzero", "malformed"}
  THEN [kind |-> "return", exc |-> "", parts |-> <<>>]
  ELSE PartitionLoop(Children(h, i), DiskName(i), 2, <<>>)

\* _get_nvme_partitions(device_name) for disk i: CalledProcessError and
\* JSONDecodeError are caught (line 90) and give no partitions;
\* FileNotFoundError, PermissionError and what _check_bootable raises are not
\* caught here.
GetNvmePartitions(h, i) ==
  LET st == h.disks[i].detail
  IN IF st = "missing"
     THEN [kind |-> "raise", exc |-> "FileNotFoundError", parts |-> <<>>]
     ELSE IF st = "denied"
     THEN [kind |-> "raise", exc |-> "PermissionError", parts |-> <<>>]
     ELSE IF st \in {"nonzero", "malformed"}
     THEN [kind |-> "return", exc |-> "", parts |-> <<>>]
     ELSE PartitionLoop(Children(h, i), DiskName(i), 1, <<>>)

\* nvme_info of detect_nvme_devices, lines 37-46
NvmeInfo(device, partitions) ==
  [device |-> DevPrefix \o device.name,
   name |-> device.name,
   size |-> Get(device.size, S_Unknown),
   partitions |-> partitions]

\* the loop of detect_nvme_devices over the top-level listing, lines 34-49:
\* an exception leaves the two lists as the devices before it filled them
RECURSIVE DeviceLoop(_, _, _, _)
DeviceLoop(h, k, devices, partitions) ==
  IF k > Len(TopListing(h))
  THEN [kind |-> "return", exc |-> "", devices |-> devices, partitions |-> partitions]
  ELSE With(TopListing(h)[k], LAMBDA device :
         IF StartsWith(device.name, S_nvme)
         THEN With(GetNvmePartitions(h, device.disk), LAMBDA r :
                IF r.kind = "raise"
                THEN [kind |-> "raise", exc |-> r.exc,
                      devices |-> devices, partitions |-> partitions]
                ELSE With(<<Append(devices, NvmeInfo(device, r.parts)),
                            partitions \o r.parts>>,
                       LAMBDA lists : DeviceLoop(h, k + 1, lists[1], lists[2])))
         ELSE DeviceLoop(h, k + 1, devices, partitions))

\* Path('/dev').glob('nvme*n*') and Path('/dev').glob(device_name + 'p*')
GlobDevice(name) ==
  StartsWith(name, S_nvme) /\ Contains(SubSeq(name, 5, Len(name)), <<"n">>)
GlobPartition(name, device_name) == StartsWith(name, device_name \o S_p)

\* part_info of _detect_nvme_fallback, lines 112-123
FallbackPartInfo(node, device_name) ==
  [device |-> DevPrefix \o node.name,
   name |-> node.name,
   size |-> GetDeviceSize(node),
   fstype |-> Empty, label |-> Empty, uuid |-> Empty, partuuid |-> Empty,
   mountpoint |-> Empty,
   parent_device |-> DevPrefix \o device_name,
   bootable |-> CheckBootableFallback(node)]

\* the inner loop of _detect_nvme_fallback, lines 110-125
RECURSIVE FallbackPartitions(_, _, _)
FallbackPartitions(dir, device_name, j) ==
  IF j > Len(dir) THEN <<>>
  ELSE IF GlobPartition(dir[j].name, device_name) /\ dir[j].type = "blk"
       THEN <<FallbackPartInfo(dir[j], device_name)>>
            \o FallbackPartitions(dir, device_name, j + 1)
       ELSE FallbackPartitions(dir, device_name, j + 1)

\* _detect_nvme_fallback: appends to the two lists as it finds them
RECURSIVE FallbackLoop(_, _, _, _)
FallbackLoop(dir, k, devices, partitions) ==
  IF k > Len(dir) THEN [devices |-> devices, partitions |-> partitions]
  ELSE IF GlobDevice(dir[k].name) /\ dir[k].type = "blk"
       THEN With(FallbackPartitions(dir, dir[k].name, 1), LAMBDA parts :
              With(<<Append(devices, [device |-> DevPrefix \o dir[k].name,
                                      name |-> dir[k].name,
                                      size |-> GetDeviceSize(dir[k]),
                                      partitions |-> parts]),
                     partitions \o parts>>,
                LAMBDA lists : FallbackLoop(dir, k + 1, lists[1], lists[2])))
       ELSE FallbackLoop(dir, k + 1, devices, partitions)

DetectNvmeFallback(h, devices, partitions) ==
  With(DevDir(h), LAMBDA dir : FallbackLoop(dir, 1, devices, partitions))

\* detect_nvme_devices: both lists are emptied, the primary strategy runs, and
\* CalledProcessError, JSONDecodeError and FileNotFoundError (line 51) start
\* the fallback on the lists as the primary strategy left them.  Any other
\* exception (the PermissionError of an lsblk that cannot be executed, what
\* _check_bootable raises) leaves the method.  strategy records which path
\* the pass took.
DetectNvmeDevices(h) ==
  IF h.top = "denied"
  THEN [kind |-> "raise", exc |-> "PermissionError", strategy |-> "primary",
        devices |-> <<>>, partitions |-> <<>>]
  ELSE IF h.top # "ok"
  THEN With(DetectNvmeFallback(h, <<>>, <<>>), LAMBDA f :
         [kind |-> "return", exc |-> "", strategy |-> "fallback",
          devices |-> f.devices, partitions |-> f.partitions])
  ELSE With(DeviceLoop(h, 1, <<>>, <<>>), LAMBDA r :
         IF r.kind = "return"
         THEN [kind |-> "return", exc |-> "", strategy |-> "primary",
               devices |-> r.devices, partitions |-> r.partitions]
         ELSE IF r.exc = "FileNotFoundError"
         THEN With(DetectNvmeFallback(h, r.devices, r.partitions), LAMBDA f :
                [kind |-> "return", exc |-> "", strategy |-> "primary+fallback",
                 devices |-> f.devices, partitions |-> f.partitions])
         ELSE [kind |-> "raise", exc |-> r.exc, strategy |-> "primary",
               devices |-> r.devices, partitions |-> r.partitions])


(***************************************************************************)
(* NVMeHandler: lookups and validation                                     *)
(***************************************************************************)
S_dev_sda1 == DevPrefix \o S_sda1
S_dev_missing == DevPrefix \o <<"n","v","m","e","7","n","1","p","1">>

\* the paths validate_nvme_partition is called with
Paths == { S_dev_sda1, S_dev_missing, DevPrefix \o S_stale, DevPrefix \o DiskName(1),
           DevPrefix \o PartName(1, 1), DevPrefix \o PartName(2, 1) }

\* os.path.exists and stat.S_ISBLK(os.stat(path).st_mode) on the host
PathExists(h, path) ==
  With(DevDir(h), LAMBDA dir :
    \E k \in 1..Len(dir) : DevPrefix \o dir[k].name = path)
IsBlockDevice(h, path) ==
  With(DevDir(h), LAMBDA dir :
    \E k \in 1..Len(dir) : DevPrefix \o dir[k].name = path /\ dir[k].type = "blk")

\* the "if not self.nvme_partitions: self.detect_nvme_devices()" that opens
\* get_partition_info, get_all_partitions and get_bootable_partitions
EnsureDetected(h, devices, partitions) ==
  IF partitions = <<>>
  THEN With(DetectNvmeDevices(h), LAMBDA d :
         [kind |-> d.kind, exc |-> d.exc, ran |-> TRUE, strategy |-> d.strategy,
          devices |-> d.devices, partitions |-> d.partitions])
  ELSE [kind |-> "return", exc |-> "", ran |-> FALSE, strategy |-> "none",
        devices |-> devices, partitions |-> partitions]

\* the search loop of get_partition_info, lines 221-225: the first record of
\* that device path, or no record
HasPartition(partitions, device_path) ==
  \E k \in 1..Len(partitions) : partitions[k].device = device_path
FindPartition(partitions, device_path) ==
  partitions[CHOOSE k \in 1..Len(partitions) :
               /\ partitions[k].device = device_path
               /\ \A m \in 1..(k-1) : partitions[m].device # device_path]

M_NotNvme == "Not an NVMe partition"
M_NotExist == "Partition does not exist"
M_NotBlock == "Not a valid block device"
M_NoInfo == "Could not get partition information"
M_EmptyPart == "Partition appears to be empty"
M_Mounted == "Valid NVMe partition (currently mounted at ...)"
M_Valid == "Valid NVMe partition"
M_NoAccess == "Cannot access partition: ..."

\* the exception classes of the model that `except OSError` catches
OSErrors == {"FileNotFoundError", "PermissionError"}

\* a verdict of validate_nvme_partition; passed tells a discovery pass that
\* ran inside the call and returned
Verdict(ok, msg, e) ==
  [kind |-> "return", exc |-> "", ok |-> ok, msg |-> msg, ran |-> e.ran,
   passed |-> (e.ran /\ e.kind = "return"),
   strategy |-> e.strategy, devices |-> e.devices, partitions |-> e.partitions]

\* lines 242-257 of validate_nvme_partition: the record of the path, found
\* after a discovery pass if the handler holds no partition, then its size
\* and its mount point.  An OSError of that pass is answered at lines
\* 259-260; any other exception leaves the method.
ValidateRecord(h, devices, partitions, device_path) ==
  With(EnsureDetected(h, devices, partitions), LAMBDA e :
    IF e.kind = "raise" /\ e.exc \in OSErrors
    THEN Verdict(FALSE, M_NoAccess, e)
    ELSE IF e.kind = "raise"
    THEN [kind |-> "raise", exc |-> e.exc, ok |-> FALSE, msg |-> "",
          ran |-> TRUE, passed |-> FALSE, strategy |-> e.strategy,
          devices |-> e.devices, partitions |-> e.partitions]
    ELSE IF ~HasPartition(e.partitions, device_path)
    THEN Verdict(FALSE, M_NoInfo, e)
    ELSE With(FindPartition(e.partitions, device_path), LAMBDA partition_info :
           IF partition_info.size = S_Unknown \/ partition_info.size = S_0B
           THEN Verdict(FALSE, M_EmptyPart, e)
           ELSE IF /\ partition_info.mountpoint # None
                   /\ partition_info.mountpoint # Empty
           THEN Verdict(TRUE, M_Mounted, e)
           ELSE Verdict(TRUE, M_Valid, e)))

\* the handler's lists as a call that runs no discovery pass leaves them
Untouched(devices, partitions) ==
  [kind |-> "return", exc |-> "", ran |-> FALSE, strategy |-> "none",
   devices |-> devices, partitions |-> partitions]

\* validate_nvme_partition(device_path) on a handler holding the two lists.
\* The host does not change during the call, so os.stat at line 238 finds the
\* node os.path.exists found at line 232; the OSError `except OSError` (lines
\* 259-260) answers is the one a discovery pass run at line 243 raises.
ValidateNvmePartition(h, devices, partitions, device_path) ==
  IF ~IsNvmePartition(device_path)
  THEN Verdict(FALSE, M_NotNvme, Untouched(devices, partitions))
  ELSE IF ~PathExists(h, device_path)
  THEN Verdict(FALSE, M_NotExist, Untouched(devices, partitions))
  ELSE IF ~IsBlockDevice(h, device_path)
  THEN Verdict(FALSE, M_NotBlock, Untouched(devices, partitions))
  ELSE ValidateRecord(h, devices, partitions, device_path)

\* the truth of a mount point that is None, '' or a path
IsMounted(mountpoint) == mountpoint # None /\ mountpoint # Empty

\* the host's partition of that path is mounted, by what lsblk prints
HostMounted(h, device_path) ==
  \E i \in 1..Len(h.disks) : \E j \in 1..Len(h.disks[i].parts) :
     /\ DevPrefix \o PartName(i, j) = device_path
     /\ IsMounted(h.disks[i].parts[j].mountpoint)

\* the host after `umount device_path` succeeded: lsblk prints a null mount
\* point for that partition
HostUnmounted(h, device_path) ==
  [h EXCEPT !.disks =
     [i \in 1..Len(h.disks) |->
        [h.disks[i] EXCEPT !.parts =
           [j \in 1..Len(h.disks[i].parts) |->
              IF DevPrefix \o PartName(i, j) = device_path
              THEN [h.disks[i].parts[j] EXCEPT !.mountpoint = None]
              ELSE h.disks[i].parts[j]]]]]

\* what subprocess.run(['sudo', 'umount', device_path]) can answer on the
\* host: exit 0 if the partition is mounted, a non-zero exit, or sudo missing
UmountOutcomes(h, device_path) ==
  {"nonzero", "missing"} \cup (IF HostMounted(h, device_path) THEN {"ok"} ELSE {})

L_Unmounted == "Successfully unmounted"
L_CouldNot == "Warning: Could not unmount"
L_Error == "Warning: Error during unmount"

\* the outcome of unmount_partition: how the call ended, whether umount was
\* run and with what answer, the line logged last, and the lists and the host
\* the call leaves
Unmounted(kind, exc, invoked, umount, log, e, h) ==
  [kind |-> kind, exc |-> exc, invoked |-> invoked, umount |-> umount, log |-> log,
   ran |-> e.ran, passed |-> (e.ran /\ e.kind = "return"), strategy |-> e.strategy,
   devices |-> e.devices, partitions |-> e.partitions, host |-> h]

\* unmount_partition that passes a failed unmount on to its caller
UnmountPartitionRaising(h, devices, partitions, device_path, umount) ==
  With(EnsureDetected(h, devices, partitions), LAMBDA e :
    IF e.kind = "raise"
    THEN Unmounted("raise", e.exc, FALSE, "none", "", e, h)
    ELSE IF ~HasPartition(e.partitions, device_path)
    THEN Unmounted("return", "", FALSE, "none", "", e, h)
    ELSE IF ~IsMounted(FindPartition(e.partitions, device_path).mountpoint)
    THEN Unmounted("return", "", FALSE, "none", "", e, h)
    ELSE IF umount = "missing"
    THEN Unmounted("raise", "FileNotFoundError", TRUE, umount, "", e, h)
    ELSE IF umount = "nonzero"
    THEN Unmounted("raise", "CalledProcessError", TRUE, umount, "", e, h)
    ELSE Unmounted("return", "", TRUE, umount, L_Unmounted, e,
                   HostUnmounted(h, device_path)))

\* unmount_partition that drops the mount point from the record it unmounted
UnmountPartitionForgetting(h, devices, partitions, device_path, umount) ==
  With(EnsureDetected(h, devices, partitions), LAMBDA e :
    IF e.kind = "raise"
    THEN Unmounted("return", "", FALSE, "none", L_Error, e, h)
    ELSE IF ~HasPartition(e.partitions, device_path)
    THEN Unmounted("return", "", FALSE, "none", "", e, h)
    ELSE IF ~IsMounted(FindPartition(e.partitions, device_path).mountpoint)
    THEN Unmounted("return", "", FALSE, "none", "", e, h)
    ELSE IF umount = "missing"
    THEN Unmounted("return", "", TRUE, umount, L_Error, e, h)
    ELSE IF umount = "nonzero"
    THEN Unmounted("return", "", TRUE, umount, L_CouldNot, e, h)
    ELSE Unmounted("return", "", TRUE, umount, L_Unmounted,
                   [e EXCEPT !.partitions =
                      [k \in 1..Len(e.partitions) |->
                         IF e.partitions[k].device = device_path
                         THEN [e.partitions[k] EXCEPT !.mountpoint = Empty]
                         ELSE e.partitions[k]]],
                   HostUnmounted(h, device_path)))

\* unmount_partition(device_path) on a handler holding the two lists, the
\* umount command answering umount if it is run.  Line 265 looks the record
\* up, after a discovery pass if the handler holds no partition; `except
\* Exception` at line 274 turns every exception into a logged warning.
UnmountPartition(h, devices, partitions, device_path, umount) ==
  With(EnsureDetected(h, devices, partitions), LAMBDA e :
    IF e.kind = "raise"
    THEN Unmounted("return", "", FALSE, "none", L_Error, e, h)
    ELSE IF ~HasPartition(e.partitions, device_path)
    THEN Unmounted("return", "", FALSE, "none", "", e, h)
    ELSE IF ~IsMounted(FindPartition(e.partitions, device_path).mountpoint)
    THEN Unmounted("return", "", FALSE, "none", "", e, h)
    ELSE IF umount = "missing"
    THEN Unmounted("return", "", TRUE, umount, L_Error, e, h)
    ELSE IF umount = "nonzero"
    THEN Unmounted("return", "", TRUE, umount, L_CouldNot, e, h)
    ELSE Unmounted("return", "", TRUE, umount, L_Unmounted, e,
                   HostUnmounted(h, device_path)))


\* get_partition_info(device_path) on a handler holding the two lists: a
\* discovery pass if the handler holds no partition (lines 218-219), whose
\* exception leaves the method, then the first record of that device path,
\* or None
GetPartitionInfo(h, devices, partitions, device_path) ==
  With(EnsureDetected(h, devices, partitions), LAMBDA e :
    [kind |-> e.kind, exc |-> e.exc, ran |-> e.ran, strategy |-> e.strategy,
     devices |-> e.devices, partitions |-> e.partitions,
     found |-> (e.kind = "return" /\ HasPartition(e.partitions, device_path)),
     value |-> IF e.kind = "return" /\ HasPartition(e.partitions, device_path)
               THEN FindPartition(e.partitions, device_path)
               ELSE None])

\* the list get_bootable_partitions builds at line 203
RECURSIVE Bootable(_)
Bootable(partitions) ==
  IF partitions = <<>> THEN <<>>
  ELSE (IF Head(partitions).bootable THEN <<Head(partitions)>> ELSE <<>>)
       \o Bootable(Tail(partitions))

\* get_all_partitions() (which = "all") and get_bootable_partitions()
\* (which = "bootable") on a handler holding the two lists: a discovery pass
\* if the handler holds no partition, then the list
GetPartitions(h, devices, partitions, which) ==
  With(EnsureDetected(h, devices, partitions), LAMBDA e :
    [kind |-> e.kind, exc |-> e.exc, ran |-> e.ran, strategy |-> e.strategy,
     devices |-> e.devices, partitions |-> e.partitions,
     value |-> IF e.kind = "raise" THEN <<>>
               ELSE IF which = "bootable" THEN Bootable(e.partitions)
               ELSE e.partitions])


(***************************************************************************)
(* NVMeHandler: the calls                                                  *)
(***************************************************************************)
NoCall == [op |-> "none", arg |-> Empty, kind |-> "return", exc |-> "",
           ok |-> FALSE, msg |-> "", strategy |-> "none", ran |-> FALSE]

\* detect_nvme_devices that keeps what the handler held before the pass
DetectPassAccumulating(h, devices, partitions) ==
  With(DetectNvmeDevices(h), LAMBDA d :
    [d EXCEPT !.devices = devices \o d.devices,
              !.partitions = partitions \o d.partitions])

\* detect_nvme_devices on a handler holding the two lists: lines 22-23 drop
\* them before the pass starts
DetectPass(h, devices, partitions) == DetectNvmeDevices(h)

\* nvme.detect_nvme_devices(); again tells a call that follows another
\* detect_nvme_devices call directly
Detect ==
  \E d \in {DetectPass(host, nvme_devices, nvme_partitions)} :
     /\ nvme_devices' = d.devices
     /\ nvme_partitions' = d.partitions
     /\ scanned' = (scanned \/ d.kind = "return")
     /\ last' = [op |-> "detect", arg |-> Empty, kind |-> d.kind, exc |-> d.exc,
                 ok |-> FALSE, msg |-> "", strategy |-> d.strategy, ran |-> TRUE,
                 again |-> (last.op = "detect")]
     /\ UNCHANGED <<host, runnerVars>>

\* nvme.validate_nvme_partition(device_path)
Validate ==
  \E device_path \in Paths :
     \E v \in {ValidateNvmePartition(host, nvme_devices, nvme_partitions, device_path)} :
        /\ nvme_devices' = v.devices
        /\ nvme_partitions' = v.partitions
        /\ scanned' = (scanned \/ v.passed)
        /\ last' = [op |-> "validate", arg |-> device_path, kind |-> v.kind,
                    exc |-> v.exc, ok |-> v.ok, msg |-> v.msg,
                    strategy |-> v.strategy, ran |-> v.ran,
                    passed |-> v.passed]
        /\ UNCHANGED <<host, runnerVars>>

\* the paths unmount_partition and get_partition_info are called with: no
\* NVMe partition, and the first partition of either disk
UnmountPaths == { S_dev_sda1, DevPrefix \o PartName(1, 1), DevPrefix \o PartName(2, 1) }

\* nvme.unmount_partition(device_path)
Unmount ==
  \E device_path \in UnmountPaths :
     \E umount \in UmountOutcomes(host, device_path) :
        \E u \in {UnmountPartition(host, nvme_devices, nvme_partitions,
                                   device_path, umount)} :
           \* the answer of umount tells calls apart only if umount is run
           /\ u.invoked \/ umount = "nonzero"
           /\ nvme_devices' = u.devices
           /\ nvme_partitions' = u.partitions
           /\ scanned' = (scanned \/ u.passed)
           /\ host' = u.host
           /\ last' = [op |-> "unmount", arg |-> device_path, kind |-> u.kind,
                       exc |-> u.exc, ok |-> FALSE, msg |-> "",
                       strategy |-> u.strategy, ran |-> u.ran,
                       invoked |-> u.invoked,
                       umount |-> IF u.invoked THEN umount ELSE "none",
                       log |-> u.log]
           /\ UNCHANGED runnerVars

\* nvme.get_all_partitions() and nvme.get_bootable_partitions()
Lookup ==
  \E which \in {"all", "bootable"} :
     \E g \in {GetPartitions(host, nvme_devices, nvme_partitions, which)} :
        /\ nvme_devices' = g.devices
        /\ nvme_partitions' = g.partitions
        /\ scanned' = (scanned \/ (g.ran /\ g.kind = "return"))
        /\ last' = [op |-> "lookup", arg |-> Empty, kind |-> g.kind, exc |-> g.exc,
                    ok |-> FALSE, msg |-> "", strategy |-> g.strategy, ran |-> g.ran,
                    which |-> which, count |-> Len(g.value)]
        /\ UNCHANGED <<host, runnerVars>>

\* nvme.get_partition_info(device_path)
PartitionInfo ==
  \E device_path \in UnmountPaths :
     \E g \in {GetPartitionInfo(host, nvme_devices, nvme_partitions, device_path)} :
        /\ nvme_devices' = g.devices
        /\ nvme_partitions' = g.partitions
        /\ scanned' = (scanned \/ (g.ran /\ g.kind = "return"))
        /\ last' = [op |-> "get_partition_info", arg |-> device_path, kind |-> g.kind,
                    exc |-> g.exc, ok |-> FALSE, msg |-> "", strategy |-> g.strategy,
                    ran |-> g.ran, found |-> g.found, value |-> g.value]
        /\ UNCHANGED <<host, runnerVars>>


(***************************************************************************)
(* The classifier as a call of its own                                     *)
(***************************************************************************)
S_VFAT == <<"V","F","A","T">>
S_Ntfs == <<"N","t","f","s">>
S_WinRec == <<"W","i","n","d","o","w","s"," ","R","e","c","o","v","e","r","y">>
S_data == <<"d","a","t","a">>
S_MyLinux == <<"M","y","L","I","N","U","X">>
S_1T == <<"1","T">>
S_200M == <<"2","0","0","M">>
S_500M == <<"5","0","0","M">>
S_30M == <<"3","0","M">>
S_1024_5M == <<"1","0","2","4",".","5","M">>
S_MM == <<"M","M">>

\* the values a partition record of lsblk's JSON carries under fstype, label, size
FsInputs == {Absent, None, Empty, S_vfat, S_VFAT, S_ext4, S_Ntfs, S_zfs_member}
LabelInputs == {Absent, None, Empty, S_EFI, S_WinRec, S_data, S_MyLinux}
SizeInputs == {Absent, None, S_1T, S_20G, S_200M, S_500M, S_30M, S_1024_5M, S_MM}

NoOut == [op |-> "none", kind |-> "return", exc |-> "", value |-> FALSE]

\* nvme._check_bootable(part_name, {fstype, label, size})
Classify ==
  \E fstype \in FsInputs, label \in LabelInputs, size \in SizeInputs :
     \E b \in {CheckBootable(fstype, label, size)} :
        /\ out' = [op |-> "classify", fstype |-> fstype, label |-> label, size |-> size,
                   kind |-> b.kind, exc |-> b.exc, value |-> b.value]
        /\ UNCHANGED <<handlerVars, qemu_binary, use_kvm, pc, proc>>

(***************************************************************************)
(* QEMURunner                                                              *)
(***************************************************************************)
\* candidates, qemu_runner.py lines 23-27
candidates == <<"qemu-system-x86_64", "qemu-system-i386", "qemu">>

\* find_qemu_binary() on a host where shutil.which finds the names in
\* on_path: the first candidate found, or RuntimeError when none is
FindQemuBinary(on_path) ==
  IF \E k \in 1..Len(candidates) : candidates[k] \in on_path
  THEN [kind |-> "return", exc |-> "", msg |-> "",
        value |-> candidates[CHOOSE k \in 1..Len(candidates) :
                               /\ candidates[k] \in on_path
                               /\ \A m \in 1..(k - 1) : candidates[m] \notin on_path]]
  ELSE [kind |-> "raise", exc |-> "RuntimeError",
        msg |-> "QEMU not found. Please install qemu-system-x86 package",
        value |-> ""]

\* check_kvm_support(): /dev/kvm exists and is readable and writable
CheckKvmSupport(kvm_exists, kvm_access) == kvm_exists /\ kvm_access
\* default_memory, qemu_runner.py line 17
default_memory == "512M"

\* options.get(key, default) on an option that is "absent" or a value
Opt(v, default) == IF v = "absent" THEN default ELSE v
\* the truth of a boolean option's value
Truthy(v) == v = "True"

OptionSets ==
  [memory : {"absent", "2G"},
   enable_kvm : {"absent", "True", "False"},
   display : {"absent", "none", "sdl"},
   vga : {"absent", "virtio"},
   enable_audio : {"absent", "True", "False"},
   enable_network : {"absent", "True", "False"}]

BootSources == {"/isos/live.iso", "/dev/nvme0n1p1"}

\* build_qemu_command(iso_path, **options) on a runner whose qemu_binary is
\* binary and whose use_kvm is kvm
CpuArgs(kvm, options) ==
  IF kvm THEN <<"-cpu", "host">> ELSE <<>>

AccelArgs(kvm, options) ==
  IF kvm /\ Truthy(Opt(options.enable_kvm, "True"))
  THEN <<"-accel", "kvm">> ELSE <<"-accel", "tcg">>

\* build_qemu_command with the audio devices added unless audio is disabled
BuildQemuCommandAudioOn(binary, kvm, iso_path, options) ==
  <<binary>>
  \o <<"-m", Opt(options.memory, default_memory)>>
  \o AccelArgs(kvm, options)
  \o CpuArgs(kvm, options)
  \o (IF Opt(options.display, "gtk") = "none"
      THEN <<"-display", "none">> ELSE <<"-display", "gtk">>)
  \o <<"-vga", Opt(options.vga, "std")>>
  \o <<"-boot", "d">>
  \o <<"-cdrom", iso_path>>
  \o (IF Truthy(Opt(options.enable_audio, "True"))
      THEN <<"-audiodev", "alsa,id=audio0", "-device", "AC97,audiodev=audio0">>
      ELSE <<>>)
  \o <<"-usb">>
  \o <<"-device", "usb-tablet">>
  \o (IF Truthy(Opt(options.enable_network, "True"))
      THEN <<"-netdev", "user,id=net0", "-device", "rtl8139,netdev=net0">>
      ELSE <<>>)
  \o <<"-no-reboot">>

BuildQemuCommand(binary, kvm, iso_path, options) ==
  <<binary>>
  \o <<"-m", Opt(options.memory, default_memory)>>
  \o AccelArgs(kvm, options)
  \o CpuArgs(kvm, options)
  \o (IF Opt(options.display, "gtk") = "none"
      THEN <<"-display", "none">> ELSE <<"-display", "gtk">>)
  \o <<"-vga", Opt(options.vga, "std")>>
  \o <<"-boot", "d">>
  \o <<"-cdrom", iso_path>>
  \o (IF Truthy(Opt(options.enable_audio, "False"))
      THEN <<"-audiodev", "alsa,id=audio0", "-device", "AC97,audiodev=audio0">>
      ELSE <<>>)
  \o <<"-usb">>
  \o <<"-device", "usb-tablet">>
  \o (IF Truthy(Opt(options.enable_network, "True"))
      THEN <<"-netdev", "user,id=net0", "-device", "rtl8139,netdev=net0">>
      ELSE <<>>)
  \o <<"-no-reboot">>

\* runner.build_qemu_command(iso_path, **options)
Build ==
  \E iso_path \in BootSources, options \in OptionSets :
     /\ pc = "idle"
     /\ out' = [op |-> "build", iso_path |-> iso_path, options |-> options,
                kind |-> "return", exc |-> "",
                cmd |-> BuildQemuCommand(qemu_binary, use_kvm, iso_path, options)]
     /\ UNCHANGED <<handlerVars, qemu_binary, use_kvm, pc, proc>>


S_iso == <<".","i","s","o">>
\* the file names validate_iso is called with
IsoNames == { <<"t","e","s","t",".","i","s","o">>,
              <<"t","e","s","t",".","i","m","g">>,
              <<"T","E","S","T",".","I","S","O">>,
              <<"a",".","I","s","o">>,
              <<"i","s","o">>,
              <<"a",".","i","s","o",".","g","z">>,
              S_iso }
\* 1024 * 1024, qemu_runner.py line 172
MinIsoSize == 1024 * 1024
\* the sizes os.path.getsize answers
IsoSizes == {0, 500, MinIsoSize - 1, MinIsoSize, MinIsoSize + 1, 5 * MinIsoSize}

M_IsoMissing == "File does not exist"
M_IsoExt == "File does not have .iso extension"
M_IsoSmall == "File too small to be a valid ISO"
M_IsoValid == "Valid ISO file"

\* validate_iso that refuses a file of exactly the floor size
ValidateIsoStrictFloor(exists, name, size) ==
  IF ~exists THEN [ok |-> FALSE, msg |-> M_IsoMissing]
  ELSE IF ~EndsWith(Lower(name), S_iso) THEN [ok |-> FALSE, msg |-> M_IsoExt]
  ELSE IF size <= MinIsoSize THEN [ok |-> FALSE, msg |-> M_IsoSmall]
  ELSE [ok |-> TRUE, msg |-> M_IsoValid]

\* validate_iso(iso_path) for a path of that name, which exists or not and
\* whose size os.path.getsize answers
ValidateIso(exists, name, size) ==
  IF ~exists THEN [ok |-> FALSE, msg |-> M_IsoMissing]
  ELSE IF ~EndsWith(Lower(name), S_iso) THEN [ok |-> FALSE, msg |-> M_IsoExt]
  ELSE IF size < MinIsoSize THEN [ok |-> FALSE, msg |-> M_IsoSmall]
  ELSE [ok |-> TRUE, msg |-> M_IsoValid]

\* runner.validate_iso(iso_path)
CheckIso ==
  \E exists \in BOOLEAN, name \in IsoNames, size \in IsoSizes :
     \E v \in {ValidateIso(exists, name, size)} :
        /\ pc = "idle"
        /\ out' = [op |-> "validate_iso", exists |-> exists, name |-> name,
                   size |-> size, kind |-> "return", exc |-> "",
                   ok |-> v.ok, msg |-> v.msg]
        /\ UNCHANGED <<handlerVars, qemu_binary, use_kvm, pc, proc>>

(***************************************************************************)
(* run_iso, in the steps the emulator process can interleave with:         *)
(*   RunIsoSpawn   lines 102-117: existence check, command, Popen          *)
(*   (sleeping)    line 122: time.sleep(1)                                 *)
(*   RunIsoPoll    lines 124-130: process.poll() and its two outcomes      *)
(*   RunIsoInterrupt  lines 134-136: KeyboardInterrupt during the sleep    *)
(* ProcessExits is the emulator ending on its own, at any time.            *)
(***************************************************************************)
NoProc == [state |-> "none", pid |-> 0, stderr |-> ""]
Pids == {4242, 4243}
StderrTexts == {"", "qemu: could not open disk image"}
DefaultOptions == [memory |-> "absent", enable_kvm |-> "absent", display |-> "absent",
                   vga |-> "absent", enable_audio |-> "absent",
                   enable_network |-> "absent"]

RunOut(iso_path, exists, kind, exc, msg, polled, pid, spawned) ==
  [op |-> "run_iso", iso_path |-> iso_path, exists |-> exists, kind |-> kind, exc |-> exc, msg |-> msg,
   polled |-> polled, value |-> "None", logged_pid |-> pid, spawned |-> spawned]

RunIsoSpawn ==
  \E iso_path \in BootSources, exists \in BOOLEAN, binary_found \in BOOLEAN,
     pid \in Pids :
     /\ pc = "idle"
     /\ IF ~exists
        THEN /\ out' = RunOut(iso_path, FALSE, "raise", "FileNotFoundError",
                              <<"ISO file not found: ", iso_path>>, "none", 0, FALSE)
             /\ UNCHANGED <<pc, proc>>
        ELSE IF ~binary_found
        THEN \* Popen raises FileNotFoundError, line 132 turns it into RuntimeError
             /\ out' = RunOut(iso_path, TRUE, "raise", "RuntimeError",
                              <<"QEMU binary '", qemu_binary, "' not found">>, "none", 0, FALSE)
             /\ UNCHANGED <<pc, proc>>
        ELSE /\ proc' = [state |-> "running", pid |-> pid, stderr |-> ""]
             /\ pc' = "sleeping"
             /\ out' = [op |-> "run_iso_pending", iso_path |-> iso_path,
                        kind |-> "none", exc |-> "",
                        cmd |-> BuildQemuCommand(qemu_binary, use_kvm, iso_path, DefaultOptions)]
     /\ UNCHANGED <<handlerVars, qemu_binary, use_kvm>>

ProcessExits ==
  \E text \in StderrTexts :
     /\ proc.state = "running"
     /\ proc' = [proc EXCEPT !.state = "exited", !.stderr = text]
     /\ UNCHANGED <<handlerVars, qemu_binary, use_kvm, pc, out>>

\* lines 124-130 with the captured error stream left out of the message
PollOutcomeNoStderr(p, iso_path) ==
  IF p.state = "exited"
  THEN RunOut(iso_path, TRUE, "raise", "RuntimeError", <<"QEMU failed: ", "QEMU failed to start">>,
              "exited", 0, TRUE)
  ELSE RunOut(iso_path, TRUE, "return", "", <<"", "">>, "running", p.pid, TRUE)

\* lines 124-130
PollOutcome(p, iso_path) ==
  IF p.state = "exited"
  THEN LET error_msg == IF p.stderr # "" THEN p.stderr ELSE "QEMU failed to start"
       IN RunOut(iso_path, TRUE, "raise", "RuntimeError", <<"QEMU failed: ", error_msg>>,
                 "exited", 0, TRUE)
  ELSE RunOut(iso_path, TRUE, "return", "", <<"", "">>, "running", p.pid, TRUE)

RunIsoPoll ==
  /\ pc = "sleeping"
  /\ out' = PollOutcome(proc, out.iso_path)
  /\ pc' = "idle"
  /\ proc' = NoProc
  /\ UNCHANGED <<handlerVars, qemu_binary, use_kvm>>

\* lines 134-136 with the KeyboardInterrupt passed on to the caller
InterruptOutcomeRaises(iso_path) ==
  RunOut(iso_path, TRUE, "raise", "KeyboardInterrupt", <<"", "">>, "interrupted", 0, TRUE)

\* lines 134-136: the KeyboardInterrupt is swallowed and run_iso returns
InterruptOutcome(iso_path) ==
  RunOut(iso_path, TRUE, "return", "", <<"", "">>, "interrupted", 0, TRUE)

RunIsoInterrupt ==
  /\ pc = "sleeping"
  /\ out' = InterruptOutcome(out.iso_path)
  /\ pc' = "idle"
  /\ proc' = NoProc
  /\ UNCHANGED <<handlerVars, qemu_binary, use_kvm>>

(***************************************************************************)
(* Specifications                                                          *)
(***************************************************************************)
HandlerInit ==
  /\ nvme_devices = <<>>
  /\ nvme_partitions = <<>>
  /\ scanned = FALSE
  /\ last = NoCall

RunnerInit ==
  /\ pc = "idle"
  /\ proc = NoProc
  /\ out = NoOut

\* a fresh NVMeHandler on any host
Init ==
  /\ host \in Hosts
  /\ HandlerInit
  /\ qemu_binary = candidates[1]
  /\ use_kvm = FALSE
  /\ RunnerInit

Next == Detect \/ Validate \/ Unmount \/ Lookup \/ PartitionInfo

Spec == Init /\ [][Next]_vars

\* a host without NVMe disks, for the calls that do not look at the host
NoHost == [top |-> "ok", disks |-> <<>>]

\* the classifier on any partition record
InitClassify ==
  /\ host = NoHost
  /\ HandlerInit
  /\ qemu_binary = candidates[1]
  /\ use_kvm = FALSE
  /\ RunnerInit

NextClassify == Classify

SpecClassify == InitClassify /\ [][NextClassify]_vars

\* the outcome of a QEMURunner() that raised
NoRunner(f) == [op |-> "__init__", kind |-> f.kind, exc |-> f.exc, msg |-> f.msg,
                value |-> FALSE]

\* QEMURunner() on a host with any of the candidates on PATH and any state of
\* /dev/kvm, lines 15-19: find_qemu_binary, then check_kvm_support.  When
\* find_qemu_binary raises there is no runner and no call can be made.
InitQemu ==
  /\ host = NoHost
  /\ HandlerInit
  /\ \E on_path \in SUBSET {candidates[k] : k \in 1..Len(candidates)},
        kvm_exists \in BOOLEAN, kvm_access \in BOOLEAN :
        \E f \in {FindQemuBinary(on_path)} :
           IF f.kind = "raise"
           THEN /\ qemu_binary = ""
                /\ use_kvm = FALSE
                /\ pc = "failed"
                /\ proc = NoProc
                /\ out = NoRunner(f)
           ELSE /\ qemu_binary = f.value
                /\ use_kvm = CheckKvmSupport(kvm_exists, kvm_access)
                /\ RunnerInit

NextQemu ==
  \/ Build
  \/ CheckIso
  \/ RunIsoSpawn
  \/ ProcessExits
  \/ RunIsoPoll
  \/ RunIsoInterrupt

SpecQemu == InitQemu /\ [][NextQemu]_vars


(***************************************************************************)
(* Claims                                                                  *)
(***************************************************************************)
DetectReturned == last.op = "detect" /\ last.kind = "return"
ValidateReturned == last.op = "validate" /\ last.kind = "return"
NvmePathPrefix == <<"/","d","e","v","/","n","v","m","e">>

\* C1: detect_nvme_devices never raises: whatever the listing queries answer
\* (binary missing, non-zero exit, malformed JSON, partition records with a
\* null filesystem type or label) the call returns a list, taken from the
\* fallback scan whenever the primary strategy fails.
C1_DetectNeverRaises ==
  last.op = "detect" =>
    /\ last.kind = "return"
    /\ host.top # "ok" => last.strategy = "fallback"

\* C2: after any discovery pass every partition of the snapshot has a parent
\* device path that is the device path of exactly one device of the snapshot,
\* and its own path starts with /dev/nvme and contains the partition marker.
C2_SnapshotConsistent ==
  DetectReturned =>
    \A k \in 1..Len(nvme_partitions) :
       /\ Cardinality({d \in 1..Len(nvme_devices) :
             nvme_devices[d].device = nvme_partitions[k].parent_device}) = 1
       /\ StartsWith(nvme_partitions[k].device, NvmePathPrefix)
       /\ Contains(nvme_partitions[k].device, S_p)

\* the three rules of the classifier as the specification words them, an
\* unknown filesystem type, label or size being the empty string
Known(v) == IF v = Absent \/ v = None THEN Empty ELSE v
RuleFs(fstype) == Lower(Known(fstype)) \in bootable_fs
RuleLabel(label) == \E l \in boot_labels : Contains(Lower(Known(label)), l)
RuleEsp(fstype, size) ==
  /\ Len(Known(size)) >= 2
  /\ Known(size)[Len(Known(size))] = "M"
  /\ ParseFloat(SubSeq(Known(size), 1, Len(Known(size)) - 1)).ok
  /\ FloatBetween(ParseFloat(SubSeq(Known(size), 1, Len(Known(size)) - 1)), 50, 1024)
  /\ Lower(Known(fstype)) \in {S_fat32, S_vfat}

\* C3: for every filesystem type (unknown included), label (none included)
\* and size string the classifier returns a boolean, true exactly when one
\* of the three rules holds.
C3_ClassifierRules ==
  out.op = "classify" =>
    /\ out.kind = "return"
    /\ out.value = (RuleFs(out.fstype) \/ RuleLabel(out.label)
                    \/ RuleEsp(out.fstype, out.size))

\* the five checks of the partition validator, read off the host and the
\* snapshot the call leaves
CheckClass == StartsWith(last.arg, NvmePathPrefix) /\ Contains(last.arg, S_p)
CheckExists ==
  With(DevDir(host), LAMBDA dir :
    \E k \in 1..Len(dir) : DevPrefix \o dir[k].name = last.arg)
CheckBlock ==
  With(DevDir(host), LAMBDA dir :
    \E k \in 1..Len(dir) : DevPrefix \o dir[k].name = last.arg /\ dir[k].type = "blk")
CheckRecord == \E k \in 1..Len(nvme_partitions) : nvme_partitions[k].device = last.arg
\* a size string that says zero: digits and dots that are all 0, then a unit
SaysZero(size) ==
  /\ size # None
  /\ Len(size) >= 2
  /\ \A k \in 1..(Len(size) - 1) : size[k] \in {"0", "."}
  /\ size[Len(size)] \in {"B", "K", "M", "G", "T", "P"}

\* a recorded size that is known
SizeKnown(size) == size \notin {None, Absent, Empty, S_Unknown}

\* the fifth check: the record found for the path, the first of that device
\* path in the snapshot, has a size that is known and is not zero
CheckSize == \A k \in 1..Len(nvme_partitions) :
                (nvme_partitions[k].device = last.arg
                 /\ \A m \in 1..(k-1) : nvme_partitions[m].device # last.arg)
                => (SizeKnown(nvme_partitions[k].size)
                    /\ ~SaysZero(nvme_partitions[k].size))

\* a discovery pass run inside the call, if any, returned
Examined == last.ran => last.passed

\* C4: validate_nvme_partition applies its checks in the order class prefix
\* and partition marker, path exists, block-device node, record in the
\* snapshot, size known and non-zero; a failure answers (false, the first
\* failing check's reason) and true is answered only when all five pass.
\* Stated for the calls whose discovery pass, if one ran, returned.
C4_ValidateOrder ==
  (ValidateReturned /\ Examined) =>
    /\ ~CheckClass => (~last.ok /\ last.msg = M_NotNvme)
    /\ (CheckClass /\ ~CheckExists) => (~last.ok /\ last.msg = M_NotExist)
    /\ (CheckClass /\ CheckExists /\ ~CheckBlock) => (~last.ok /\ last.msg = M_NotBlock)
    /\ (CheckClass /\ CheckBlock /\ ~CheckRecord) => (~last.ok /\ last.msg = M_NoInfo)
    /\ (CheckClass /\ CheckBlock /\ CheckRecord /\ ~CheckSize)
          => (~last.ok /\ last.msg = M_EmptyPart)
    /\ last.ok => (CheckClass /\ CheckExists /\ CheckBlock /\ CheckRecord /\ CheckSize)

\* a name ends in .iso, whatever the case of its letters
IsoExtension(name) ==
  /\ Len(name) >= 4
  /\ name[Len(name) - 3] = "."
  /\ name[Len(name) - 2] \in {"i", "I"}
  /\ name[Len(name) - 1] \in {"s", "S"}
  /\ name[Len(name)] \in {"o", "O"}

\* C5: validate_iso accepts exactly the files that exist, are named *.iso in
\* any case and hold at least 1 MiB, and otherwise answers the message of the
\* first failing check in the order existence, extension, size.
C5_ValidateIso ==
  out.op = "validate_iso" =>
    /\ out.kind = "return"
    /\ out.ok <=> (out.exists /\ IsoExtension(out.name) /\ out.size >= 1048576)
    /\ ~out.exists => out.msg = M_IsoMissing
    /\ (out.exists /\ ~IsoExtension(out.name)) => out.msg = M_IsoExt
    /\ (out.exists /\ IsoExtension(out.name) /\ out.size < 1048576)
          => out.msg = M_IsoSmall

\* C5's case: a file of exactly 1 MiB named in upper case is accepted
C5_Witness ==
  /\ out.op = "validate_iso"
  /\ out.exists /\ out.size = 1048576
  /\ out.name = <<"T","E","S","T",".","I","S","O">>
  /\ out.ok /\ out.msg = M_IsoValid

HardwareAccelerated(cmd) == Contains(cmd, <<"-accel", "kvm">>)
HostCpu(cmd) == Contains(cmd, <<"-cpu", "host">>)

\* C6: the built command is hardware-accelerated exactly when acceleration is
\* available and enable_kvm is not disabled, and carries the host CPU model
\* exactly when it is hardware-accelerated.
C6_AccelerationAndCpu ==
  out.op = "build" =>
    /\ HardwareAccelerated(out.cmd) <=> (use_kvm /\ out.options.enable_kvm # "False")
    /\ HostCpu(out.cmd) <=> HardwareAccelerated(out.cmd)

\* the step in which run_iso samples the process after the grace period
PollStep == pc = "sleeping" /\ pc' = "idle" /\ out'.polled # "interrupted"

\* what the poll step answers for a process that has exited
FailsWithStderr ==
  /\ out'.kind = "raise" /\ out'.exc = "RuntimeError"
  /\ out'.msg[1] = "QEMU failed: "
  /\ proc.stderr # "" => out'.msg[2] = proc.stderr

\* C7 as claimed: a process that exited by the sample makes launch fail with
\* the captured error stream; a process still running makes launch return a
\* handle holding its process identifier.
C7_LaunchReturnsHandle ==
  [][PollStep =>
       /\ proc.state = "exited" => FailsWithStderr
       /\ proc.state = "running" =>
            (out'.kind = "return" /\ out'.value # "None")]_vars

\* C7 as amended: a process that exited by the sample makes launch fail with
\* the captured error stream; a process still running makes launch return
\* normally with no value, the process identifier going to the log only.
C7_LaunchSamplesOnce ==
  [][PollStep =>
       /\ proc.state = "exited" => FailsWithStderr
       /\ proc.state = "running" =>
            /\ out'.kind = "return" /\ out'.value = "None"
            /\ out'.logged_pid = proc.pid /\ proc.pid # 0]_vars

\* C7's case: a launch whose process was still running at the sample
C7_Witness ==
  /\ out.op = "run_iso" /\ out.polled = "running"
  /\ out.kind = "return" /\ out.logged_pid \in Pids

\* a primary pass that returned without the fallback
PrimaryReturned == DetectReturned /\ last.strategy = "primary"
DetailFailed(i) == host.disks[i].detail \in {"nonzero", "malformed"}
\* the devices of the snapshot are the host's NVMe disks, in order
AllDisksListed ==
  /\ Len(nvme_devices) = Len(host.disks)
  /\ \A i \in 1..Len(host.disks) : nvme_devices[i].name = DiskName(i)
\* device i of the snapshot holds exactly the partitions of disk i
OwnPartitions(i) ==
  /\ Len(nvme_devices[i].partitions) = Len(host.disks[i].parts)
  /\ \A j \in 1..Len(host.disks[i].parts) :
        /\ nvme_devices[i].partitions[j].name = PartName(i, j)
        /\ nvme_devices[i].partitions[j].parent_device = DevPrefix \o DiskName(i)

\* C8 as claimed: a device whose detail query fails is left out of the
\* returned list, every other matching device being returned with its own
\* partitions.
C8_FailedDeviceOmitted ==
  PrimaryReturned =>
    \A i \in 1..Len(host.disks) :
       IF DetailFailed(i)
       THEN \A d \in 1..Len(nvme_devices) : nvme_devices[d].name # DiskName(i)
       ELSE \E d \in 1..Len(nvme_devices) :
               /\ nvme_devices[d].name = DiskName(i)
               /\ Len(nvme_devices[d].partitions) = Len(host.disks[i].parts)

\* C8 as amended: a device whose detail query fails stays in the returned
\* list, with no partitions, every other matching device being returned with
\* its own partitions.
C8_FailedDeviceKeptEmpty ==
  PrimaryReturned =>
    /\ AllDisksListed
    /\ \A i \in 1..Len(host.disks) :
          IF DetailFailed(i) THEN nvme_devices[i].partitions = <<>>
          ELSE OwnPartitions(i)

\* C8's case: of two disks the first one's detail query failed and the
\* second one has a partition
C8_Witness ==
  /\ PrimaryReturned
  /\ Len(host.disks) = 2
  /\ DetailFailed(1) /\ Len(host.disks[1].parts) = 1
  /\ ~DetailFailed(2) /\ Len(host.disks[2].parts) = 1
  /\ Len(nvme_devices) = 2 /\ Len(nvme_partitions) = 1

\* C9: validate_nvme_partition refuses every partition whose recorded size
\* is unknown or zero, whichever strategy recorded it.
C9_ZeroSizeRefused ==
  ValidateReturned =>
    \A k \in 1..Len(nvme_partitions) :
       (/\ nvme_partitions[k].device = last.arg
        /\ \/ nvme_partitions[k].size = S_Unknown
           \/ SaysZero(nvme_partitions[k].size))
       => ~last.ok

\* C10: validation never throws: validate_nvme_partition answers an
\* (ok, message) pair for every path on every host.
C10_ValidateNeverRaises ==
  last.op = "validate" => last.kind = "return"


\* C11: when the boot source path does not exist, run_iso fails with the
\* error kind it uses for an unlocatable emulator binary and for an immediate
\* exit after the spawn (RuntimeError), and spawns no process.
C11_MissingSourceLaunchError ==
  (out.op = "run_iso" /\ ~out.exists) =>
    /\ out.kind = "raise"
    /\ out.exc = "RuntimeError"
    /\ ~out.spawned
    /\ proc = NoProc


\* C14: a user interruption arriving during the startup wait of run_iso
\* makes the call return normally, with no value and no error.
C14_InterruptReturnsNormally ==
  [][(pc = "sleeping" /\ pc' = "idle" /\ out'.polled = "interrupted") =>
       /\ out'.kind = "return"
       /\ out'.exc = ""
       /\ out'.value = "None"]_vars

\* C14's case: a launch that spawned its process and was interrupted in the
\* wait
C14_Witness ==
  /\ out.op = "run_iso" /\ out.polled = "interrupted"
  /\ out.spawned /\ out.kind = "return"
  /\ pc = "idle"


\* how often the argument a stands in the command
Occurrences(cmd, a) == Cardinality({k \in 1..Len(cmd) : cmd[k] = a})
\* the flag a stands in the command once, followed by the value v
OnceWith(cmd, a, v) == Occurrences(cmd, a) = 1 /\ Contains(cmd, <<a, v>>)
AudioFlags(cmd) ==
  Contains(cmd, <<"-audiodev", "alsa,id=audio0", "-device", "AC97,audiodev=audio0">>)
NoAudioFlags(cmd) ==
  Occurrences(cmd, "-audiodev") = 0 /\ Occurrences(cmd, "AC97,audiodev=audio0") = 0
NetworkFlags(cmd) ==
  Contains(cmd, <<"-netdev", "user,id=net0", "-device", "rtl8139,netdev=net0">>)
NoNetworkFlags(cmd) ==
  Occurrences(cmd, "-netdev") = 0 /\ Occurrences(cmd, "rtl8139,netdev=net0") = 0

\* C15: for every boot source and option combination the built command has
\* one memory flag (512M unless overridden), one acceleration flag, boot
\* order d with the boot source as the CD-ROM, the USB tablet and -no-reboot;
\* audio flags exactly when enable_audio is True, network flags exactly when
\* enable_network is not False, and display none exactly when the display
\* option is none, gtk otherwise.
C15_CommandShape ==
  out.op = "build" =>
    /\ OnceWith(out.cmd, "-m",
                IF out.options.memory = "absent" THEN "512M" ELSE out.options.memory)
    /\ Occurrences(out.cmd, "-accel") = 1
    /\ Contains(out.cmd, <<"-accel", "kvm">>) \/ Contains(out.cmd, <<"-accel", "tcg">>)
    /\ OnceWith(out.cmd, "-boot", "d")
    /\ OnceWith(out.cmd, "-cdrom", out.iso_path)
    /\ Occurrences(out.cmd, "-usb") = 1
    /\ Contains(out.cmd, <<"-device", "usb-tablet">>)
    /\ Occurrences(out.cmd, "-no-reboot") = 1
    /\ IF out.options.enable_audio = "True"
       THEN AudioFlags(out.cmd) ELSE NoAudioFlags(out.cmd)
    /\ IF out.options.enable_network # "False"
       THEN NetworkFlags(out.cmd) ELSE NoNetworkFlags(out.cmd)
    /\ OnceWith(out.cmd, "-display",
                IF out.options.display = "none" THEN "none" ELSE "gtk")

\* C15's case: a raw partition booted with memory overridden, audio left at
\* its default, networking disabled and the sdl display asked for
C15_Witness ==
  /\ out.op = "build"
  /\ out.iso_path = "/dev/nvme0n1p1"
  /\ out.options.memory = "2G"
  /\ out.options.enable_audio = "absent"
  /\ out.options.enable_network = "False"
  /\ out.options.display = "sdl"
  /\ NoAudioFlags(out.cmd) /\ NoNetworkFlags(out.cmd)
  /\ Contains(out.cmd, <<"-display", "gtk">>)


\* the record get_partition_info finds for the path of the last call in the
\* snapshot that call left
HasRecord == HasPartition(nvme_partitions, last.arg)
Record == FindPartition(nvme_partitions, last.arg)

\* C12: unmount_partition never raises, runs the privileged unmount only
\* when the record it looked up has a non-empty mount point, and answers a
\* failed unmount (non-zero exit or exception) with a logged warning only.
C12_UnmountBestEffort ==
  last.op = "unmount" =>
    /\ last.kind = "return" /\ last.exc = ""
    /\ last.invoked => (HasRecord /\ IsMounted(Record.mountpoint))
    /\ (last.invoked /\ last.umount = "nonzero") => last.log = L_CouldNot
    /\ (last.invoked /\ last.umount = "missing") => last.log = L_Error
    /\ ~last.invoked => last.umount = "none"

\* C12's case: the unmount of a mounted partition was run and failed
C12_Witness ==
  /\ last.op = "unmount" /\ last.kind = "return"
  /\ last.invoked /\ last.umount = "nonzero"
  /\ HasRecord /\ IsMounted(Record.mountpoint)
  /\ HostMounted(host, last.arg)


\* C13: a detect_nvme_devices call that directly follows another one on the
\* same handler, the host being as it was, leaves the device and partition
\* sequences as the first call left them, entry by entry and in order.
C13_DetectIdempotent ==
  [][(/\ last.op = "detect" /\ last.kind = "return"
      /\ last'.op = "detect" /\ last'.kind = "return"
      /\ host' = host)
     => (nvme_devices' = nvme_devices /\ nvme_partitions' = nvme_partitions)]_vars

\* C13's case: a second pass in a row, on a host where the primary strategy
\* listed a disk and then fell back, so that the snapshot holds entries of
\* both strategies
C13_Witness ==
  /\ last.op = "detect" /\ last.again /\ last.kind = "return"
  /\ last.strategy = "primary+fallback"
  /\ Len(nvme_devices) >= 2 /\ Len(nvme_partitions) >= 2


\* C16: get_partition_info (called directly and through
\* validate_nvme_partition and unmount_partition), get_all_partitions and
\* get_bootable_partitions run a discovery pass only on a handler that has
\* completed none; after a completed pass, also one that found no partition,
\* they read the snapshot as it is.
C16_LazyPassOnlyOnce ==
  [][(scanned /\ last'.op \in {"validate", "unmount", "lookup", "get_partition_info"})
        => ~last'.ran]_vars


\* the call before this step was an unmount_partition whose umount succeeded
AfterUnmount == last.op = "unmount" /\ last.invoked /\ last.umount = "ok"

\* C17: unmount_partition of a partition that is in the snapshot leaves both
\* lists as they were; after a successful unmount the record still carries
\* its mount point, so that validate_nvme_partition of that path still
\* answers "currently mounted" and a repeated unmount_partition runs umount
\* again, as long as no detect_nvme_devices pass is made.
C17_UnmountKeepsSnapshot ==
  [][/\ (last'.op = "unmount" /\ HasPartition(nvme_partitions, last'.arg))
        => (nvme_devices' = nvme_devices /\ nvme_partitions' = nvme_partitions)
     /\ (AfterUnmount /\ last'.op = "validate" /\ last'.arg = last.arg)
        => (last'.kind = "return" /\ last'.ok /\ last'.msg = M_Mounted)
     /\ (AfterUnmount /\ last'.op = "unmount" /\ last'.arg = last.arg)
        => last'.invoked]_vars

\* C17's case: a partition the host no longer has mounted is validated from
\* the snapshot taken before its unmount
C17_Witness ==
  /\ last.op = "validate" /\ last.kind = "return"
  /\ last.ok /\ last.msg = M_Mounted
  /\ ~last.ran
  /\ ~HostMounted(host, last.arg)
  /\ HasRecord /\ IsMounted(Record.mountpoint)


====
